---- MODULE Spec2Model ----
(***************************************************************************)
(* Model of github_backup.py: the synchronization engine made of           *)
(* run_git_command (bounded retry with exponential backoff),               *)
(* backup_repository (clone / pull / delete-and-re-clone) and main         *)
(* (sequential loop over the repositories, summary and metadata file).     *)
(*                                                                         *)
(* Texts (stderr, messages) are sequences of words; Python's substring     *)
(* test `err in e.stderr` is the contiguous-subsequence test Contains.     *)
(* The git child process and shutil.rmtree are the environment: each       *)
(* invocation nondeterministically takes one of the outcomes listed in     *)
(* GitOutcomes / RmtreeOutcomes.                                           *)
(***************************************************************************)
EXTENDS Integers, Sequences, FiniteSets, TLC

\* Longest repository list get_list_repos hands to main.
MaxRepos == 2

\* run_git_command(command, retries=3, delay=5)
DefaultRetries == 3
DefaultDelay == 5

-----------------------------------------------------------------------------
(* Texts *)

\* Python: needle in hay, on word sequences.
Contains(hay, needle) ==
    \E k \in 0..(Len(hay) - Len(needle)) :
        \A j \in 1..Len(needle) : hay[k + j] = needle[j]

\* The literal list of run_git_command's `any(err in e.stderr for err in [...])`.
TransientIndicators ==
    { <<"unable", "to", "access">>,
      <<"Couldn't", "connect", "to", "server">>,
      <<"RPC", "failed">>,
      <<"early", "EOF">>,
      <<"index-pack", "failed">> }

IsTransient(stderr) == \E err \in TransientIndicators : Contains(stderr, err)

\* stderr texts git can end with, and the text of an OSError of subprocess.run.
ErrEarlyEOF == <<"fatal:", "early", "EOF">>
ErrRPC == <<"error:", "RPC", "failed">>
ErrAuth == <<"fatal:", "Authentication", "failed">>
ErrExists == <<"fatal:", "destination", "path", "already", "exists">>
ErrNoGit == <<"[Errno 2]", "No", "such", "file">>
Stdout == <<"stdout">>

-----------------------------------------------------------------------------
(* Descriptors and the file system *)

backup_dir == <<"backups">>

\* What get_list_repos appends: name and clone_url of the API answer; the
\* clone_url is kept as its '/'-separated segments.
Descriptor(owner, name, file) ==
    [name |-> name, clone_url |-> <<"https:", "", "github.com", owner, file>>]

Descriptors ==
    { Descriptor("o1", "x", "x.git"),
      Descriptor("o2", "x", "x.git"),
      Descriptor("o1", "y", "y.git") }

\* A star list names each repository once.
RepoLists ==
    { s \in UNION { [1..n -> Descriptors] : n \in 0..MaxRepos } :
        \A i, j \in DOMAIN s : i # j => s[i] # s[j] }

\* repo_url.split('/')[-1]
RepoName(repo_url) == repo_url[Len(repo_url)]

\* os.path.join(backup_dir, repo_name)
RepoPath(repo_url) == backup_dir \o <<RepoName(repo_url)>>

Paths == { RepoPath(d.clone_url) : d \in Descriptors }

Absent == [st |-> "absent", origin |-> <<>>]
Mirror(st, url) == [st |-> st, origin |-> url]

\* os.path.exists(repo_path)
Exists(fs, path) == fs[path].st # "absent"

\* The mirrors an earlier run can have left under backups/.
InitialMirrors ==
    { fs \in [Paths -> {Absent} \cup { Mirror("old", d.clone_url) : d \in Descriptors }] :
        \A p \in Paths : fs[p] # Absent => RepoPath(fs[p].origin) = p }

-----------------------------------------------------------------------------
(* configure_git *)

\* The keys of git_configs, in list order.
git_configs ==
    << "http.postBuffer", "core.compression", "http.lowSpeedLimit",
       "http.lowSpeedTime", "gc.auto", "core.preloadIndex", "protocol.version",
       "core.packedGitLimit", "core.packedGitWindowSize", "pack.windowMemory",
       "pack.packSizeLimit", "pack.threads" >>

-----------------------------------------------------------------------------
(* The environment: one git child process, one shutil.rmtree *)

Ok(text) == [kind |-> "ok", text |-> text]
\* subprocess.CalledProcessError with e.stderr = text
Cpe(text) == [kind |-> "cpe", text |-> text]
\* any other exception of subprocess.run, str(e) = text
Exc(text) == [kind |-> "exc", text |-> text]

\* Outcomes of subprocess.run(command, check=True, ...).  git clone refuses a
\* destination that exists and is not empty; a failed clone removes what it
\* created, a failed pull leaves the work tree as it was.
GitOutcomes(op, fs, path) ==
    IF op = "clone" /\ Exists(fs, path)
    THEN { Cpe(ErrExists), Exc(ErrNoGit) }
    ELSE { Ok(Stdout), Cpe(ErrEarlyEOF), Cpe(ErrRPC), Cpe(ErrAuth), Exc(ErrNoGit) }

\* The file system after the child process has ended.
GitEffect(op, o, fs, path, url) ==
    IF o.kind # "ok" THEN fs
    ELSE IF op = "clone" THEN [fs EXCEPT ![path] = Mirror("fresh", url)]
    ELSE [fs EXCEPT ![path] = Mirror("updated", fs[path].origin)]

\* shutil.rmtree(repo_path, ignore_errors=True): the tree is gone, or an error
\* was swallowed and (part of) the stale tree is still there.
RmtreeOutcomes(fs, path) ==
    { [fs EXCEPT ![path] = Absent],
      [fs EXCEPT ![path] = Mirror("stale", fs[path].origin)] }

-----------------------------------------------------------------------------
(* run_git_command *)

\* Variant: a transient failure of the last attempt is followed by a sleep too.
RetryOnLastAttempt(stderr, attempt, retries) ==
    IsTransient(stderr) /\ attempt < retries

\* Variant: every failed command is retried, whatever its text.
RetryAnyError(stderr, attempt, retries) == attempt < retries - 1

\* The decision of the `except subprocess.CalledProcessError` branch: sleep
\* and continue, or return the failure.
ShouldRetry(stderr, attempt, retries) ==
    IsTransient(stderr) /\ attempt < retries - 1

\* Variant: the delay is not doubled.
ConstantDelay(delay) == delay

\* delay *= 2
NextDelay(delay) == delay * 2

\* Variant: a successful attempt does not leave the loop while attempts remain.
AfterAttemptNoReturn(o, attempt, retries) ==
    IF attempt < retries - 1
    THEN [next |-> "sleep", ok |-> o.kind = "ok", output |-> o.text]
    ELSE [next |-> "return", ok |-> o.kind = "ok", output |-> o.text]

\* Variant: an exception other than CalledProcessError is retried like a
\* transient failure.
AfterAttemptRetriesAll(o, attempt, retries) ==
    IF o.kind = "ok"
    THEN [next |-> "return", ok |-> TRUE, output |-> o.text]
    ELSE IF attempt < retries - 1 /\ (o.kind = "exc" \/ IsTransient(o.text))
         THEN [next |-> "sleep", ok |-> FALSE, output |-> o.text]
         ELSE [next |-> "return", ok |-> FALSE, output |-> o.text]

\* What one pass of the loop body ends with: a returned (success, text) pair,
\* or the sleep before the next attempt.
AfterAttempt(o, attempt, retries) ==
    CASE o.kind = "ok" -> [next |-> "return", ok |-> TRUE, output |-> o.text]
      [] o.kind = "cpe" ->
            IF ShouldRetry(o.text, attempt, retries)
            THEN [next |-> "sleep", ok |-> FALSE, output |-> o.text]
            ELSE [next |-> "return", ok |-> FALSE, output |-> o.text]
      [] OTHER -> [next |-> "return", ok |-> FALSE, output |-> o.text]

\* The fall-through after the for loop.
MaxRetriesReached == <<"Max retries reached">>

-----------------------------------------------------------------------------
(* backup_repository *)

\* Variant: there is no update path.
FirstOpAlwaysClone(exists) == "clone"

\* Variant: the existence test is inverted.
FirstOpInverted(exists) == IF exists THEN "clone" ELSE "pull"

\* if os.path.exists(repo_path): pull, else: clone
FirstOp(exists) == IF exists THEN "pull" ELSE "clone"

\* Variant: the mirror is re-created after every pull.
AlwaysRecover(success) == TRUE

\* if success: ... else: re-clone
NeedsRecovery(success) == ~success

UpdatedResult == [ok |-> TRUE, msg |-> <<"Updated successfully">>]
ClonedResult == [ok |-> TRUE, msg |-> <<"Cloned successfully">>]
\* Variant: the re-clone reports the message of the plain clone.
ReclonedAsCloned == ClonedResult
ReclonedResult == [ok |-> TRUE, msg |-> <<"Re-cloned successfully">>]
\* Variant: the clone's output is left out of the detail.
RecloneFailureNoOutput(output) == [ok |-> FALSE, msg |-> <<"Failed to re-clone:">>]
\* f"Failed to re-clone: {output}"
RecloneFailure(output) == [ok |-> FALSE, msg |-> <<"Failed to re-clone:">> \o output]
\* f"Failed to clone: {output}"
CloneFailure(output) == [ok |-> FALSE, msg |-> <<"Failed to clone:">> \o output]

-----------------------------------------------------------------------------
(* main *)

\* Variant: new entries are put at the head of the list.
PrependEntry(list, entry) == <<entry>> \o list

\* list.append(entry)
AppendEntry(list, entry) == Append(list, entry)

\* Variant: the loop is left at the first failed repository.
StopOnFailure(idx, success, n) == IF success THEN idx + 1 ELSE n

\* The for loop of main goes on to the next repository whatever the result.
NextIndex(idx, success, n) == idx + 1

\* The metadata dictionary written to backup_metadata.json (without the clock).
Metadata(rs, succ, fail) ==
    [ successful_repos |-> succ,
      failed_repos |-> fail,
      total_repos |-> Len(rs),
      success_count |-> Len(succ),
      fail_count |-> Len(fail) ]

NoFile == [ successful_repos |-> <<>>, failed_repos |-> <<>>, total_repos |-> -1,
            success_count |-> -1, fail_count |-> -1 ]

-----------------------------------------------------------------------------
(* State *)

VARIABLES
    pc,               \* where main is
    cfgLog,           \* the git config keys attempted so far, in order
    warned,           \* configure_git printed a warning for a failed setting
    repos,            \* the list get_list_repos returned
    idx,              \* number of repositories main's loop is done with
    mirror,           \* the file system under backups/
    phase,            \* backup_repository: "pull", "reclone" or "clone"
    repo_url,         \* the clone_url backup_repository was called with
    existed,          \* os.path.exists(repo_path) as backup_repository saw it
    attempt,          \* run_git_command: the loop variable
    delay,            \* run_git_command: the current delay
    clog,             \* events of the current run_git_command call
    ops,              \* operations issued for the current repository
    pullOut,          \* the (success, output) the pull's run_git_command returned
    ret,              \* the (success, output) run_git_command returned last
    result,           \* the (success, message) backup_repository returned
    successful_repos, \* main's list
    failed_repos,     \* main's list
    attempted,        \* indices of the descriptors handed to backup_repository
    metadata,         \* content of backup_metadata.json
    writes,           \* number of times this run wrote backup_metadata.json
    run,              \* 1 for the first run of the program, 2 for the next
    prev              \* the list and the outcome of the run before this one

vars == << pc, cfgLog, warned, repos, idx, mirror, phase, repo_url, existed, attempt,
           delay, clog, ops, pullOut, ret, result, successful_repos,
           failed_repos, attempted, metadata, writes, run, prev >>

NoRun == [repos |-> <<>>, ok |-> FALSE]
NoRet == [ok |-> FALSE, output |-> <<>>]
NoResult == [ok |-> FALSE, msg |-> <<>>]

RunEvent(o) == [e |-> "run", kind |-> o.kind, text |-> o.text, d |-> 0]
WaitEvent(d) == [e |-> "wait", kind |-> "", text |-> <<>>, d |-> d]

repo_path == RepoPath(repo_url)

Init ==
    /\ pc = "configure"
    /\ cfgLog = <<>>
    /\ warned = FALSE
    /\ repos = <<>>
    /\ idx = 0
    /\ mirror \in InitialMirrors
    /\ phase = "none"
    /\ repo_url = <<"">>
    /\ existed = FALSE
    /\ attempt = 0
    /\ delay = DefaultDelay
    /\ clog = <<>>
    /\ ops = <<>>
    /\ pullOut = NoRet
    /\ ret = NoRet
    /\ result = NoResult
    /\ successful_repos = <<>>
    /\ failed_repos = <<>>
    /\ attempted = <<>>
    /\ metadata = NoFile
    /\ writes = 0
    /\ run = 1
    /\ prev = NoRun

\* Variant: the first setting that fails ends the loop, the rest is skipped.
StopAtFailedSetting(log, applied) ==
    IF applied
    THEN Append(log, git_configs[Len(log) + 1])
    ELSE Append(log, git_configs[Len(log) + 1])
            \o [k \in 1..(Len(git_configs) - Len(log) - 1) |-> "skipped"]

\* The settings attempted after one more pass of the loop: the except clause
\* only prints, the loop goes on to the next setting.
AfterSetting(log, applied) == Append(log, git_configs[Len(log) + 1])

\* One pass of configure_git's loop: git config --global key value, a failure
\* is printed as a warning.
ConfigureGit ==
    /\ pc = "configure"
    /\ Len(cfgLog) < Len(git_configs)
    /\ \E applied \in BOOLEAN :
         /\ cfgLog' = AfterSetting(cfgLog, applied)
         /\ warned' = (warned \/ ~applied)
    /\ UNCHANGED << pc, repos, idx, mirror, phase, repo_url, existed, attempt,
                    delay, clog, ops, pullOut, ret, result, successful_repos,
                    failed_repos, attempted, metadata, writes, run,
                    prev >>

\* repos = get_list_repos(username, list_name)
GetListRepos ==
    /\ pc = "configure"
    /\ run = 1
    /\ Len(cfgLog) = Len(git_configs)
    /\ \E rs \in RepoLists : repos' = rs
    /\ pc' = "loop"
    /\ UNCHANGED << cfgLog, warned, idx, mirror, phase, repo_url, existed, attempt,
                    delay, clog, ops, pullOut, ret, result, successful_repos,
                    failed_repos, attempted, metadata, writes, run,
                    prev >>

\* Variant: the delay is kept from one call to the next.
EnterCallKeepsDelay ==
    /\ attempt' = 0
    /\ delay' = delay
    /\ clog' = <<>>

\* run_git_command(command) is entered: retries=3, delay=5, attempt 0.
EnterCall ==
    /\ attempt' = 0
    /\ delay' = DefaultDelay
    /\ clog' = <<>>

\* main calls backup_repository(repo['clone_url'], backup_dir), which takes
\* the pull or the clone branch and enters run_git_command.
StartBackup ==
    /\ pc = "loop"
    /\ idx < Len(repos)
    /\ LET url == repos[idx + 1].clone_url
           ex == Exists(mirror, RepoPath(url))
       IN /\ repo_url' = url
          /\ existed' = ex
          /\ phase' = FirstOp(ex)
    /\ attempted' = Append(attempted, idx + 1)
    /\ EnterCall
    /\ ops' = <<>>
    /\ pullOut' = NoRet
    /\ ret' = NoRet
    /\ result' = NoResult
    /\ pc' = "run"
    /\ UNCHANGED << cfgLog, warned, repos, idx, mirror, successful_repos, failed_repos,
                    metadata, writes, run,
                    prev >>

OpOf(ph) == IF ph = "pull" THEN "pull" ELSE "clone"

\* One attempt of run_git_command: subprocess.run and the except clauses.
GitRun ==
    /\ pc = "run"
    /\ \E o \in GitOutcomes(OpOf(phase), mirror, repo_path) :
         LET a == AfterAttempt(o, attempt, DefaultRetries)
         IN /\ clog' = Append(clog, RunEvent(o))
            /\ ops' = Append(ops, OpOf(phase))
            /\ mirror' = GitEffect(OpOf(phase), o, mirror, repo_path, repo_url)
            /\ IF a.next = "sleep"
               THEN pc' = "sleep" /\ ret' = ret
               ELSE pc' = "ret" /\ ret' = [ok |-> a.ok, output |-> a.output]
    /\ UNCHANGED << cfgLog, warned, repos, idx, phase, repo_url, existed, attempt, delay,
                    pullOut, result, successful_repos, failed_repos, attempted,
                    metadata, writes, run,
                    prev >>

\* time.sleep(delay); delay *= 2; continue
Sleep ==
    /\ pc = "sleep"
    /\ clog' = Append(clog, WaitEvent(delay))
    /\ delay' = NextDelay(delay)
    /\ attempt' = attempt + 1
    /\ IF attempt + 1 < DefaultRetries
       THEN pc' = "run" /\ ret' = ret
       ELSE pc' = "ret" /\ ret' = [ok |-> FALSE, output |-> MaxRetriesReached]
    /\ UNCHANGED << cfgLog, warned, repos, idx, mirror, phase, repo_url, existed, ops,
                    pullOut, result, successful_repos, failed_repos, attempted,
                    metadata, writes, run,
                    prev >>

\* The pull succeeded: return True, "Updated successfully"
PullUpdated ==
    /\ pc = "ret"
    /\ phase = "pull"
    /\ ~NeedsRecovery(ret.ok)
    /\ pullOut' = ret
    /\ result' = UpdatedResult
    /\ pc' = "record"
    /\ UNCHANGED << cfgLog, warned, repos, idx, mirror, phase, repo_url, existed, attempt,
                    delay, clog, ops, ret, successful_repos, failed_repos,
                    attempted, metadata, writes, run,
                    prev >>

\* The pull failed: shutil.rmtree(repo_path, ignore_errors=True), then
\* run_git_command(clone_command).
Recover ==
    /\ pc = "ret"
    /\ phase = "pull"
    /\ NeedsRecovery(ret.ok)
    /\ pullOut' = ret
    /\ \E fs \in RmtreeOutcomes(mirror, repo_path) : mirror' = fs
    /\ ops' = Append(ops, "rmtree")
    /\ phase' = "reclone"
    /\ EnterCall
    /\ pc' = "run"
    /\ UNCHANGED << cfgLog, warned, repos, idx, repo_url, existed, ret, result,
                    successful_repos, failed_repos, attempted, metadata, writes, run,
                    prev >>

\* The re-clone returned.
RecloneReturn ==
    /\ pc = "ret"
    /\ phase = "reclone"
    /\ result' = IF ret.ok THEN ReclonedResult ELSE RecloneFailure(ret.output)
    /\ pc' = "record"
    /\ UNCHANGED << cfgLog, warned, repos, idx, mirror, phase, repo_url, existed, attempt,
                    delay, clog, ops, pullOut, ret, successful_repos,
                    failed_repos, attempted, metadata, writes, run,
                    prev >>

\* Variant: a failed first clone is followed by deletion and another clone.
CloneReturnRecovers ==
    /\ pc = "ret"
    /\ phase = "clone"
    /\ IF ret.ok
       THEN /\ result' = ClonedResult
            /\ pc' = "record"
            /\ UNCHANGED << mirror, phase, attempt, delay, clog, ops >>
       ELSE /\ \E fs \in RmtreeOutcomes(mirror, repo_path) : mirror' = fs
            /\ ops' = Append(ops, "rmtree")
            /\ phase' = "reclone"
            /\ attempt' = 0
            /\ delay' = DefaultDelay
            /\ clog' = <<>>
            /\ pc' = "run"
            /\ result' = result
    /\ UNCHANGED << cfgLog, warned, repos, idx, repo_url, existed, pullOut, ret,
                    successful_repos, failed_repos, attempted, metadata, writes,
                    run, prev >>

\* The clone of a new repository returned.
CloneReturn ==
    /\ pc = "ret"
    /\ phase = "clone"
    /\ result' = IF ret.ok THEN ClonedResult ELSE CloneFailure(ret.output)
    /\ pc' = "record"
    /\ UNCHANGED << cfgLog, warned, repos, idx, mirror, phase, repo_url, existed, attempt,
                    delay, clog, ops, pullOut, ret, successful_repos,
                    failed_repos, attempted, metadata, writes, run,
                    prev >>

\* main: successful_repos.append(name) or failed_repos.append((name, message))
RecordResult ==
    /\ pc = "record"
    /\ LET name == repos[idx + 1].name
       IN IF result.ok
          THEN /\ successful_repos' = AppendEntry(successful_repos, name)
               /\ failed_repos' = failed_repos
          ELSE /\ failed_repos' = AppendEntry(failed_repos, <<name, result.msg>>)
               /\ successful_repos' = successful_repos
    /\ idx' = NextIndex(idx, result.ok, Len(repos))
    /\ pc' = "loop"
    /\ UNCHANGED << cfgLog, warned, repos, mirror, phase, repo_url, existed, attempt,
                    delay, clog, ops, pullOut, ret, result, attempted, metadata,
                    writes, run,
                    prev >>

\* Variant: the metadata file is written only inside `if repos:`.
SaveMetadataUnlessEmpty ==
    /\ pc = "loop"
    /\ idx >= Len(repos)
    /\ IF repos = <<>>
       THEN metadata' = metadata /\ writes' = writes
       ELSE /\ metadata' = Metadata(repos, successful_repos, failed_repos)
            /\ writes' = writes + 1
    /\ pc' = "done"
    /\ UNCHANGED << cfgLog, warned, repos, idx, mirror, phase, repo_url, existed, attempt,
                    delay, clog, ops, pullOut, ret, result, successful_repos,
                    failed_repos, attempted, run,
                    prev >>

\* After the loop (or with no repositories): json.dump(metadata, f)
SaveMetadata ==
    /\ pc = "loop"
    /\ idx >= Len(repos)
    /\ metadata' = Metadata(repos, successful_repos, failed_repos)
    /\ writes' = writes + 1
    /\ pc' = "done"
    /\ UNCHANGED << cfgLog, warned, repos, idx, mirror, phase, repo_url, existed, attempt,
                    delay, clog, ops, pullOut, ret, result, successful_repos,
                    failed_repos, attempted, run,
                    prev >>

Next ==
    \/ ConfigureGit
    \/ GetListRepos
    \/ StartBackup
    \/ GitRun
    \/ Sleep
    \/ PullUpdated
    \/ Recover
    \/ RecloneReturn
    \/ CloneReturn
    \/ RecordResult
    \/ SaveMetadata

Spec == Init /\ [][Next]_vars

-----------------------------------------------------------------------------
(* Two runs in succession, with no change of the star list in between *)

\* The program is started again after a run that recorded no failure:
\* everything but the file system starts anew.
Rerun ==
    /\ pc = "done"
    /\ run = 1
    /\ metadata.fail_count = 0
    /\ run' = 2
    /\ prev' = [repos |-> repos, ok |-> metadata.fail_count = 0]
    /\ pc' = "configure"
    /\ cfgLog' = <<>>
    /\ warned' = FALSE
    /\ repos' = <<>>
    /\ idx' = 0
    /\ phase' = "none"
    /\ repo_url' = <<"">>
    /\ existed' = FALSE
    /\ attempt' = 0
    /\ delay' = DefaultDelay
    /\ clog' = <<>>
    /\ ops' = <<>>
    /\ pullOut' = NoRet
    /\ ret' = NoRet
    /\ result' = NoResult
    /\ successful_repos' = <<>>
    /\ failed_repos' = <<>>
    /\ attempted' = <<>>
    /\ writes' = 0
    /\ UNCHANGED << mirror, metadata >>

\* repos = get_list_repos(username, list_name), the list being what it was.
GetListReposAgain ==
    /\ pc = "configure"
    /\ run = 2
    /\ Len(cfgLog) = Len(git_configs)
    /\ repos' = prev.repos
    /\ pc' = "loop"
    /\ UNCHANGED << cfgLog, warned, idx, mirror, phase, repo_url, existed, attempt,
                    delay, clog, ops, pullOut, ret, result, successful_repos,
                    failed_repos, attempted, metadata, writes, run, prev >>

NextTwice ==
    \/ Next
    \/ Rerun
    \/ GetListReposAgain

SpecTwice == Init /\ [][NextTwice]_vars

-----------------------------------------------------------------------------
(* Reading the logs *)

Runs(log) == SelectSeq(log, LAMBDA ev : ev.e = "run")
Waits(log) == SelectSeq(log, LAMBDA ev : ev.e = "wait")

IsTransientRun(ev) == ev.e = "run" /\ ev.kind = "cpe" /\ IsTransient(ev.text)
IsFatalRun(ev) == ev.e = "run" /\ ev.kind = "cpe" /\ ~IsTransient(ev.text)
IsOkRun(ev) == ev.e = "run" /\ ev.kind = "ok"

AllRunsTransient(log) ==
    /\ log # <<>>
    /\ \A k \in DOMAIN log : log[k].e = "run" => IsTransientRun(log[k])

LastText(log) == log[Len(log)].text

RECURSIVE Pow2(_)
Pow2(n) == IF n = 0 THEN 1 ELSE 2 * Pow2(n - 1)

\* run_git_command has returned to backup_repository
Returned == pc \in {"ret", "record", "loop", "done"}
\* backup_repository has returned to main
Finished == phase # "none" /\ pc \in {"record", "loop", "done"}
\* main has appended the result of the repository processed last
Recorded == phase # "none" /\ pc \in {"loop", "done"}

Has(seq, x) == \E k \in DOMAIN seq : seq[k] = x
Count(seq, x) == Cardinality({ k \in DOMAIN seq : seq[k] = x })

-----------------------------------------------------------------------------
(* Claims *)

\* C1: when every attempt of one run_git_command call fails with a transient
\* error text, the command is invoked exactly retries (3) times with exactly
\* retries - 1 waits between the invocations, the k-th wait lasting
\* delay * 2^(k-1) (5, 10), and no wait follows the last attempt.
C1_TransientExhaustsRetries ==
    /\ (pc = "ret" /\ AllRunsTransient(clog)) =>
          /\ Len(Runs(clog)) = DefaultRetries
          /\ Len(Waits(clog)) = DefaultRetries - 1
          /\ \A k \in DOMAIN clog :
                clog[k].e = (IF k % 2 = 1 THEN "run" ELSE "wait")
          /\ \A k \in 1..Len(Waits(clog)) :
                Waits(clog)[k].d = DefaultDelay * Pow2(k - 1)
          /\ clog[Len(clog)].e = "run"
    /\ pc = "sleep" => Len(Runs(clog)) < DefaultRetries

C1_Witness ==
    /\ pc = "ret"
    /\ AllRunsTransient(clog)
    /\ Len(Runs(clog)) = 3
    /\ Waits(clog)[2].d = 10

\* C2: the first failure whose text matches no transient indicator ends the
\* run_git_command call: nothing (no wait, no invocation) follows it in the
\* call and the call returns failure with that failure's text; a fatal failure
\* of the first attempt so gives one invocation and no wait.
C2_FatalEndsCall ==
    \A k \in DOMAIN clog :
        IsFatalRun(clog[k]) =>
            /\ k = Len(clog)
            /\ Returned
            /\ ret = [ok |-> FALSE, output |-> clog[k].text]

C2_Witness ==
    /\ pc = "ret"
    /\ Len(clog) = 3
    /\ IsTransientRun(clog[1])
    /\ IsFatalRun(clog[3])

\* C3: run_git_command returns at the first attempt that succeeds (no
\* invocation and no wait after it), and it returns success exactly when some
\* attempt numbered at most retries succeeded and every attempt before it
\* failed with a transient error.
C3_SuccessEndsCall ==
    /\ \A k \in DOMAIN clog :
          IsOkRun(clog[k]) => k = Len(clog) /\ Returned
    /\ pc = "ret" =>
          ( ret.ok <=>
              \E k \in DOMAIN clog :
                  /\ IsOkRun(clog[k])
                  /\ Len(Runs(SubSeq(clog, 1, k))) <= DefaultRetries
                  /\ \A j \in 1..(k - 1) :
                        clog[j].e = "run" => IsTransientRun(clog[j]) )

C3_Witness ==
    /\ pc = "ret"
    /\ ret.ok
    /\ Len(Runs(clog)) = 3

\* C4: for a repository whose mirror path does not exist when
\* backup_repository starts, only clones are issued (no pull, no deletion);
\* if a clone attempt succeeds the result is (True, "Cloned successfully") and
\* the mirror is present, otherwise the result is a failure whose message
\* carries the clone's failure text.
C4_AbsentClones ==
    (phase # "none" /\ ~existed) =>
        /\ \A k \in DOMAIN ops : ops[k] = "clone"
        /\ Finished =>
              IF \E k \in DOMAIN clog : IsOkRun(clog[k])
              THEN /\ result = [ok |-> TRUE, msg |-> <<"Cloned successfully">>]
                   /\ mirror[repo_path] = Mirror("fresh", repo_url)
              ELSE /\ ~result.ok
                   /\ result.msg = <<"Failed to clone:">> \o LastText(clog)

C4_Witness ==
    /\ pc = "record"
    /\ ~existed
    /\ result = [ok |-> TRUE, msg |-> <<"Cloned successfully">>]
    /\ ops = <<"clone", "clone">>

\* C5: for a repository whose mirror exists and whose pull succeeds within the
\* retry budget, the mirror is never deleted and no clone is issued while the
\* repository is processed, and the result is (True, "Updated successfully").
C5_PullSucceeded ==
    /\ (phase = "pull" /\ existed) =>
          /\ \A k \in DOMAIN ops : ops[k] = "pull"
          /\ Exists(mirror, repo_path)
    /\ (existed /\ pullOut.ok) =>
          /\ \A k \in DOMAIN ops : ops[k] = "pull"
          /\ mirror[repo_path].st = "updated"
          /\ Finished
          /\ result = [ok |-> TRUE, msg |-> <<"Updated successfully">>]

C5_Witness ==
    /\ pc = "record"
    /\ existed
    /\ result = [ok |-> TRUE, msg |-> <<"Updated successfully">>]
    /\ ops = <<"pull", "pull", "pull">>

\* C6: for a repository whose mirror exists and whose pull ends in failure,
\* the operations come in the order: all pull attempts, one deletion, the
\* clone attempts; no deletion happens before the pull's run_git_command has
\* returned failure, and if the clone succeeds the result is
\* (True, "Re-cloned successfully") with the mirror present.
C6_RecoveryOrder ==
    /\ (phase = "pull" /\ pc \in {"run", "sleep", "ret"}) => ~Has(ops, "rmtree")
    /\ Has(ops, "rmtree") =>
          /\ existed /\ ~pullOut.ok /\ phase = "reclone"
          /\ Count(ops, "rmtree") = 1
          /\ LET r == CHOOSE k \in DOMAIN ops : ops[k] = "rmtree"
             IN /\ r >= 2
                /\ \A j \in 1..(r - 1) : ops[j] = "pull"
                /\ \A j \in (r + 1)..Len(ops) : ops[j] = "clone"
    /\ (Finished /\ existed /\ ~pullOut.ok) =>
          /\ Has(ops, "rmtree")
          /\ ops[Len(ops)] = "clone"
          /\ (\E k \in DOMAIN clog : IsOkRun(clog[k])) =>
                /\ result = [ok |-> TRUE, msg |-> <<"Re-cloned successfully">>]
                /\ mirror[repo_path] = Mirror("fresh", repo_url)

C6_Witness ==
    /\ pc = "record"
    /\ ops = <<"pull", "pull", "pull", "rmtree", "clone", "clone">>
    /\ result = [ok |-> TRUE, msg |-> <<"Re-cloned successfully">>]
    /\ mirror[repo_path].st = "fresh"

\* C7 (as claimed): after backup_repository has finished on the recovery path,
\* either the result is success and the mirror is a complete fresh clone, or
\* the result is failure and the mirror is absent, also when the deletion of
\* the stale mirror failed and its error was swallowed.
C7_RecoveryEndStates ==
    (Finished /\ phase = "reclone") =>
        \/ result.ok /\ mirror[repo_path] = Mirror("fresh", repo_url)
        \/ ~result.ok /\ mirror[repo_path] = Absent

\* The pull returned a failure whose text matches no transient indicator.
PullFatal == pullOut # NoRet /\ ~pullOut.ok /\ ~IsTransient(pullOut.output)

LastFailure == failed_repos[Len(failed_repos)]

\* C8 (as claimed): when the pull on an existing mirror fails with a fatal
\* error and the recovery clone fails too, the repository is recorded in
\* failed_repos with a detail containing both the pull's and the clone's
\* failure message.
C8_DetailHasBothMessages ==
    (Recorded /\ phase = "reclone" /\ PullFatal /\ ~result.ok) =>
        /\ failed_repos # <<>>
        /\ LastFailure[1] = repos[idx].name
        /\ Contains(LastFailure[2], pullOut.output)
        /\ Contains(LastFailure[2], LastText(clog))

\* C8 (amended): when the pull on an existing mirror fails with a fatal error
\* and the recovery clone fails too, the repository is recorded in
\* failed_repos with the detail "Failed to re-clone: " followed by the clone's
\* failure message and nothing else; the pull's failure message is not kept.
C8_DetailHasCloneMessage ==
    (Recorded /\ phase = "reclone" /\ PullFatal /\ ~result.ok) =>
        /\ failed_repos # <<>>
        /\ LastFailure[1] = repos[idx].name
        /\ LastFailure[2] = <<"Failed to re-clone:">> \o LastText(clog)
        /\ Contains(LastFailure[2], LastText(clog))

C8_Witness ==
    /\ Recorded
    /\ phase = "reclone"
    /\ PullFatal
    /\ ~result.ok
    /\ pullOut.output = ErrAuth
    /\ LastText(clog) = ErrEarlyEOF
    /\ LastFailure = <<repos[idx].name, <<"Failed to re-clone:">> \o ErrEarlyEOF>>

SuccessNames == { metadata.successful_repos[k] : k \in DOMAIN metadata.successful_repos }
FailureNames == { metadata.failed_repos[k][1] : k \in DOMAIN metadata.failed_repos }

\* C9 (as claimed): the persisted summary has total = number of descriptors
\* supplied = len(successes) + len(failures), and the names in successes and
\* the names in failures are disjoint and together are exactly the names of
\* the supplied descriptors, also when two descriptors carry the same name.
C9_SummaryPartition ==
    writes > 0 =>
        /\ metadata.total_repos = Len(repos)
        /\ metadata.total_repos =
              Len(metadata.successful_repos) + Len(metadata.failed_repos)
        /\ SuccessNames \cap FailureNames = {}
        /\ SuccessNames \cup FailureNames = { repos[k].name : k \in DOMAIN repos }

\* C10: no repository's failure stops the run: main goes from every recorded
\* result to the next descriptor, backup_metadata.json is written exactly
\* once, when every supplied descriptor has been handed to backup_repository
\* and has its result recorded, and nothing is issued after the write.
C10_RunCompletes ==
    /\ [](writes <= 1)
    /\ [](writes = 1 =>
            /\ pc = "done"
            /\ attempted = [k \in 1..Len(repos) |-> k]
            /\ Len(successful_repos) + Len(failed_repos) = Len(repos)
            /\ metadata = Metadata(repos, successful_repos, failed_repos))
    /\ [][pc = "record" => pc' = "loop" /\ idx' = idx + 1]_vars
    /\ [][(pc = "loop" /\ idx < Len(repos)) => attempted' = Append(attempted, idx + 1)]_vars
    /\ [][writes = 1 => UNCHANGED vars]_vars

C10_Witness ==
    /\ pc = "done"
    /\ writes = 1
    /\ Len(repos) = 2
    /\ Len(failed_repos) = 1
    /\ successful_repos = <<repos[2].name>>

\* The summary of a run over no repositories.
EmptySummary ==
    [ successful_repos |-> <<>>, failed_repos |-> <<>>, total_repos |-> 0,
      success_count |-> 0, fail_count |-> 0 ]

\* C11 (as claimed): with an empty descriptor list the run persists a summary
\* with total = 0 and empty successes and failures, and no process is spawned
\* during the run.
C11_EmptyRunSpawnsNothing ==
    (pc = "done" /\ repos = <<>>) =>
        /\ writes = 1
        /\ metadata = EmptySummary
        /\ cfgLog = <<>>
        /\ ops = <<>>

\* C11 (amended): with an empty descriptor list the run persists a summary
\* with total = 0 and empty successes and failures, and no clone, pull or
\* deletion is issued; the git config processes of configure_git, one per
\* setting, are spawned all the same.
C11_EmptyRunSyncsNothing ==
    (pc = "done" /\ repos = <<>>) =>
        /\ writes = 1
        /\ metadata = EmptySummary
        /\ attempted = <<>>
        /\ ops = <<>>
        /\ phase = "none"
        /\ cfgLog = git_configs

C11_Witness ==
    /\ pc = "done"
    /\ repos = <<>>
    /\ metadata = EmptySummary
    /\ cfgLog # <<>>
    /\ \E p \in Paths : Exists(mirror, p)

\* Every operation issued for the repository succeeded: one invocation.
AllOpsOk == Len(ops) = 1 /\ Len(clog) = 1 /\ IsOkRun(clog[1])

\* C12: running twice in succession over the same descriptors with every
\* operation succeeding gives success for every repository in both runs, and
\* in the second run every repository takes the pull path: its mirror is
\* there, no clone is issued and no mirror is deleted.
C12_SecondRunUpdates ==
    /\ (Finished /\ AllOpsOk) => result.ok
    /\ (run = 2 /\ prev.ok /\ failed_repos = <<>> /\ phase # "none") =>
          /\ repos = prev.repos
          /\ existed
          /\ ops # <<>> => ops[1] = "pull"
          /\ (Finished /\ AllOpsOk) =>
                /\ ops = <<"pull">>
                /\ result = [ok |-> TRUE, msg |-> <<"Updated successfully">>]
                /\ mirror[repo_path].st = "updated"

C12_Witness ==
    /\ run = 2
    /\ prev.ok
    /\ pc = "done"
    /\ Len(repos) = 2
    /\ RepoPath(repos[1].clone_url) # RepoPath(repos[2].clone_url)
    /\ Len(successful_repos) = 2
    /\ ops = <<"pull">>
    /\ \A k \in DOMAIN repos : mirror[RepoPath(repos[k].clone_url)].st = "updated"

\* The clone_urls of the descriptors of this run other than the current one.
OtherUrls == { repos[k].clone_url : k \in DOMAIN repos } \ { repo_url }

\* C13 (as claimed): two distinct descriptors of one run never map to the same
\* mirror path, so no operation issued for one descriptor acts on a mirror
\* that holds the repository of another descriptor of the run.
C13_MirrorsAreDisjoint ==
    (phase # "none" /\ ops # <<>> /\ Exists(mirror, repo_path)) =>
        mirror[repo_path].origin \notin OtherUrls

Names == [k \in DOMAIN repos |-> repos[k].name]
Range(seq) == { seq[k] : k \in DOMAIN seq }
FailedNames == [k \in DOMAIN failed_repos |-> failed_repos[k][1]]

\* C15: descriptors are processed one after another in the order received:
\* every operation (pull, deletion, clone, wait) is issued for the descriptor
\* handed over last, whose predecessors all have their result recorded, and
\* successful_repos and failed_repos list their names in the order of the
\* supplied list.
C15_SequentialInOrder ==
    /\ [](attempted = [k \in 1..Len(attempted) |-> k])
    /\ [][attempted' # attempted =>
            /\ pc = "loop"
            /\ attempted' = Append(attempted, idx + 1)
            /\ Len(successful_repos) + Len(failed_repos) = Len(attempted)]_vars
    /\ [][(ops' # ops \/ clog' # clog) /\ attempted' = attempted =>
            /\ attempted # <<>>
            /\ repo_url = repos[Len(attempted)].clone_url
            /\ Len(successful_repos) + Len(failed_repos) = Len(attempted) - 1]_vars
    /\ [][successful_repos' # successful_repos =>
            /\ successful_repos' = Append(successful_repos, repos[idx + 1].name)
            /\ failed_repos' = failed_repos
            /\ idx' = idx + 1]_vars
    /\ [][failed_repos' # failed_repos =>
            /\ failed_repos' = Append(failed_repos, <<repos[idx + 1].name, result.msg>>)
            /\ successful_repos' = successful_repos
            /\ idx' = idx + 1]_vars
    /\ []((\A i, j \in DOMAIN repos : i # j => repos[i].name # repos[j].name) =>
            /\ successful_repos =
                  SelectSeq(Names, LAMBDA n : n \in Range(successful_repos))
            /\ FailedNames = SelectSeq(Names, LAMBDA n : n \in Range(FailedNames)))

C15_Witness ==
    /\ pc = "done"
    /\ Len(repos) = 2
    /\ repos[1].name # repos[2].name
    /\ failed_repos # <<>>
    /\ FailedNames = <<repos[1].name, repos[2].name>>
    /\ Len(ops) = 6

LastRun(log) == Runs(log)[Len(Runs(log))]

\* C16: when run_git_command fails because the transient retry budget is
\* exhausted, it returns a plain failure whose message is the error text of
\* the last attempt, not that of an earlier attempt and not a message of its
\* own about the retries.
C16_ExhaustedReturnsLastText ==
    (pc = "ret" /\ AllRunsTransient(clog) /\ Len(Runs(clog)) >= DefaultRetries) =>
        /\ ret = [ok |-> FALSE, output |-> LastRun(clog).text]
        /\ ret.output # <<"Max retries reached">>
        /\ clog[Len(clog)].e = "run"

C16_Witness ==
    /\ pc = "ret"
    /\ Len(Runs(clog)) = 3
    /\ clog[1].text = ErrEarlyEOF
    /\ clog[3].text = ErrEarlyEOF
    /\ clog[5].text = ErrRPC
    /\ ret = [ok |-> FALSE, output |-> ErrRPC]

IsExcRun(ev) == ev.e = "run" /\ ev.kind = "exc"

\* C17: a failure to run the command that is not a nonzero exit status never
\* escapes run_git_command: it ends the call at that attempt, with no retry
\* and no wait after it, as a returned failure carrying its text; on the update
\* path it is followed by the same deletion and re-clone as any failed pull.
C17_ExceptionIsReturned ==
    /\ \A k \in DOMAIN clog :
          IsExcRun(clog[k]) =>
              /\ k = Len(clog)
              /\ Returned
              /\ ret = [ok |-> FALSE, output |-> clog[k].text]
    /\ (phase = "pull" /\ clog # <<>> /\ IsExcRun(clog[Len(clog)])) =>
          /\ pc = "ret"
          /\ ENABLED Recover
          /\ ~ENABLED PullUpdated
    /\ (Finished /\ existed /\ pullOut = [ok |-> FALSE, output |-> ErrNoGit]) =>
          /\ Has(ops, "rmtree")
          /\ ops[Len(ops)] = "clone"
          /\ phase = "reclone"

C17_Witness ==
    /\ Finished
    /\ existed
    /\ pullOut = [ok |-> FALSE, output |-> ErrNoGit]
    /\ ops = <<"pull", "rmtree", "clone">>
    /\ result = [ok |-> TRUE, msg |-> <<"Re-cloned successfully">>]

\* Steps backup_repository can still take before it returns.
StepsLeft ==
    (IF phase = "pull" THEN 2 * DefaultRetries + 2 ELSE 0)
    + (CASE pc = "run" -> 2 * (DefaultRetries - attempt) + 2
         [] pc = "sleep" -> 2 * (DefaultRetries - attempt) + 1
         [] pc = "ret" -> 1
         [] OTHER -> 0)

\* C18: processing one repository always terminates (every step of
\* backup_repository lowers a bounded count of steps left) and issues at most
\* retries pulls, one deletion and retries clones, so at most 2 * retries git
\* invocations; the return of a re-clone or of a first clone, failed or not,
\* ends the processing with no further operation, and a repository whose
\* mirror was absent sees no pull and no deletion.
C18_BoundedProcessing ==
    /\ [](/\ Count(ops, "pull") <= DefaultRetries
          /\ Count(ops, "rmtree") <= 1
          /\ Count(ops, "clone") <= DefaultRetries
          /\ Count(ops, "pull") + Count(ops, "clone") <= 2 * DefaultRetries
          /\ (phase # "none" /\ ~existed) =>
                (Count(ops, "pull") = 0 /\ Count(ops, "rmtree") = 0)
          /\ StepsLeft >= 0)
    /\ [][(pc \in {"run", "sleep", "ret"}) => (StepsLeft' < StepsLeft)]_vars
    /\ [][(pc = "ret" /\ phase \in {"reclone", "clone"}) =>
            (pc' = "record" /\ ops' = ops /\ mirror' = mirror)]_vars

C18_Witness ==
    /\ Finished
    /\ ~result.ok
    /\ ops = <<"pull", "pull", "pull", "rmtree", "clone", "clone", "clone">>

\* C19: the backoff state belongs to one run_git_command call: every call
\* starts at attempt 1 with the delay 5, and its first wait lasts 5 whatever
\* was doubled in earlier calls, in the re-clone after an exhausted pull as
\* well as in the operations of the next repository.
C19_BackoffIsPerCall ==
    /\ (pc = "run" /\ clog = <<>>) => (attempt = 0 /\ delay = DefaultDelay)
    /\ pc = "run" => Len(Runs(clog)) = attempt
    /\ Waits(clog) # <<>> => Waits(clog)[1].d = DefaultDelay
    /\ \A k \in DOMAIN Waits(clog) : Waits(clog)[k].d = DefaultDelay * Pow2(k - 1)

C19_Witness ==
    /\ idx = 1
    /\ phase = "reclone"
    /\ Len(ops) >= 4
    /\ SubSeq(ops, 1, 4) = <<"pull", "pull", "pull", "rmtree">>
    /\ Len(Waits(clog)) = 2
    /\ Waits(clog)[1].d = 5

====
